---- MODULE Spec2Model ----
(***************************************************************************)
(* The chess plugin of server/chat-plugins/chess.ts: the ChessBoard bit    *)
(* fields, its move generation and mutation, and the ChessGame controller. *)
(*                                                                         *)
(* A bigint bit field is modelled as the set of the indices of its set     *)
(* bits: bits 0..63 are the occupancy bits, bits 64+4*i .. 67+4*i hold the *)
(* piece type of square i.  A Position is the sequence of the characters   *)
(* of the position string.                                                 *)
(***************************************************************************)
EXTENDS Integers, Sequences, FiniteSets, TLC

(***************************************************************************)
(* Types and constants of the plugin                                       *)
(***************************************************************************)
Pawn == 1
Rook == 2
Knight == 3
Bishop == 4
Queen == 5
King == 6
PawnEnPassant == 7
KingCastle == 8
RookCastle == 9

Prepared == "prepared"
Active == "active"
Checkmate == "checkmate"
Stalemate == "stalemate"
Draw == "draw"

bitOffset == 4
maxBinary == 15

\* The number NaN of the host language: absorbing for arithmetic, never a valid index.
NaN == -1000000

letters == <<"a", "b", "c", "d", "e", "f", "g", "h">>
digits == <<"0", "1", "2", "3", "4", "5", "6", "7", "8", "9">>

\* The string "undefined", produced when letters[col] is out of range.
undefined == <<"u", "n", "d", "e", "f", "i", "n", "e", "d">>

opposite(color) == IF color = "white" THEN "black" ELSE "white"

abs(x) == IF x < 0 THEN -x ELSE x

\* x + y on numbers of the host language
plus(x, y) == IF x = NaN \/ y = NaN THEN NaN ELSE x + y

(***************************************************************************)
(* Conversions between position strings, coordinates and indices           *)
(***************************************************************************)
\* letters.indexOf(letter)
indexOf(letter) ==
    CASE letter = "a" -> 0 [] letter = "b" -> 1 [] letter = "c" -> 2 [] letter = "d" -> 3
      [] letter = "e" -> 4 [] letter = "f" -> 5 [] letter = "g" -> 6 [] letter = "h" -> 7
      [] OTHER -> -1

\* parseInt of a single character (or of a missing character)
parseInt(ch) ==
    CASE ch = "0" -> 0 [] ch = "1" -> 1 [] ch = "2" -> 2 [] ch = "3" -> 3 [] ch = "4" -> 4
      [] ch = "5" -> 5 [] ch = "6" -> 6 [] ch = "7" -> 7 [] ch = "8" -> 8 [] ch = "9" -> 9
      [] OTHER -> NaN

RECURSIVE numberToString(_)
\* `${number}`
numberToString(n) ==
    IF n = NaN THEN <<"N", "a", "N">>
    ELSE IF n < 0 THEN <<"-">> \o numberToString(-n)
    ELSE IF n < 10 THEN <<digits[n + 1]>>
    ELSE numberToString(n \div 10) \o <<digits[(n % 10) + 1]>>

positionToCoordinates(position) ==
    LET letter == IF Len(position) >= 1 THEN position[1] ELSE "undefined"
        number == IF Len(position) >= 2 THEN parseInt(position[2]) ELSE NaN
        col == indexOf(letter)
        row == plus(number, -1)
    IN  [row |-> row, col |-> col]

coordinatesToPosition(coord) ==
    LET letter == IF coord.col \in 0..7 THEN <<letters[coord.col + 1]>> ELSE undefined
        number == plus(coord.row, 1)
    IN  letter \o numberToString(number)

\* coordinatesToIndex with rows of seven squares
coordinatesToIndexShort(coord) ==
    IF coord.row = NaN \/ coord.col = NaN THEN NaN ELSE coord.row * 7 + coord.col

coordinatesToIndex(coord) ==
    IF coord.row = NaN \/ coord.col = NaN THEN NaN ELSE coord.row * 8 + coord.col

\* coordinatesToPosition({row, col}) as written at the call sites
pos(row, col) == coordinatesToPosition([row |-> row, col |-> col])

(***************************************************************************)
(* The bit fields                                                          *)
(***************************************************************************)
\* The set bits of a piece type, as offsets 0..3
typeBits(type) == {k \in 0..3 : (type \div (2 ^ k)) % 2 = 1}

\* Number((board >> bitPos) & maxBinary)
readType(board, bitPos) ==
    LET has(k) == IF (bitPos + k) \in board THEN 2 ^ k ELSE 0
    IN  has(0) + has(1) + has(2) + has(3)

\* A variant with kind fields three bits apart
calculateBitLengthNarrow(position) ==
    IF position = NaN THEN 0 ELSE position * (bitOffset - 1) + 64

calculateBitLength(position) ==
    IF position = NaN THEN 0 ELSE position * bitOffset + 64

setPiece(board, position, type) ==
    LET occ == IF position >= 0 THEN {position} ELSE {}
        len == calculateBitLength(position)
        kind == {len + k : k \in typeBits(type)} \cap Nat
    IN  (board \cup occ) \cup kind

removePiece(board, position) ==
    LET len == calculateBitLength(position)
    IN  (board \ {position}) \ {len + k : k \in 0..3}

\* A board is the record of the four bit fields of ChessBoard.
isOccupiedBy(b, position, color) ==
    LET board == IF color = "white" THEN b.whitePieces ELSE b.blackPieces
        index == coordinatesToIndex(positionToCoordinates(position))
    IN  IF index = NaN THEN FALSE ELSE index \in board

null == [type |-> 0, position |-> <<>>, color |-> "none"]

getPieceAt(b, position) ==
    LET index == coordinatesToIndex(positionToCoordinates(position))
        whiteOccupied == isOccupiedBy(b, position, "white")
        blackOccupied == isOccupiedBy(b, position, "black")
        bitPos == calculateBitLength(index)
    IN  IF whiteOccupied
        THEN [type |-> readType(b.whitePieces, bitPos), position |-> position, color |-> "white"]
        ELSE IF blackOccupied
        THEN [type |-> readType(b.blackPieces, bitPos), position |-> position, color |-> "black"]
        ELSE null

isEmpty(b, position) == getPieceAt(b, position) = null

isEnemy(b, position, color) ==
    LET piece == getPieceAt(b, position)
    IN  piece # null /\ piece.color # color

(***************************************************************************)
(* Move generation                                                         *)
(***************************************************************************)
includes(moves, position) == \E i \in 1..Len(moves) : moves[i] = position

getPawnMoves(b, position, color) ==
    LET c == positionToCoordinates(position)
        row == c.row
        col == c.col
        direction == IF color = "white" THEN 1 ELSE -1
        startRow == IF color = "white" THEN 1 ELSE 6
        fwd == pos(row + direction, col)
        pos2 == pos(row + 2 * direction, col)
        capL == pos(row + direction, col - 1)
        capR == pos(row + direction, col + 1)
        forward ==
            IF isEmpty(b, fwd)
            THEN <<fwd>> \o (IF row = startRow /\ isEmpty(b, pos2) THEN <<pos2>> ELSE <<>>)
            ELSE <<>>
        captures ==
            (IF isEnemy(b, capL, color) THEN <<capL>> ELSE <<>>)
            \o (IF isEnemy(b, capR, color) THEN <<capR>> ELSE <<>>)
        enPassantRow == IF color = "white" THEN 4 ELSE 3
        leftPos == pos(row, col - 1)
        rightPos == pos(row, col + 1)
        enPassant ==
            IF row = enPassantRow
            THEN (IF isEnemy(b, leftPos, color) /\ getPieceAt(b, leftPos).type = PawnEnPassant
                  THEN <<capL>> ELSE <<>>)
                 \o (IF isEnemy(b, rightPos, color) /\ getPieceAt(b, rightPos).type = PawnEnPassant
                     THEN <<capR>> ELSE <<>>)
            ELSE <<>>
    IN  forward \o captures \o enPassant

RECURSIVE rayThroughEnemy(_, _, _, _, _, _)
\* A variant of the loops that does not break at an enemy piece
rayThroughEnemy(b, color, row, col, dr, dc) ==
    IF ~ ( (dr > 0 => row < 8) /\ (dr < 0 => row >= 0)
           /\ (dc > 0 => col < 8) /\ (dc < 0 => col >= 0) )
    THEN <<>>
    ELSE LET p == pos(row, col)
         IN  IF isEmpty(b, p) \/ isEnemy(b, p, color)
             THEN <<p>> \o rayThroughEnemy(b, color, row + dr, col + dc, dr, dc)
             ELSE <<>>

RECURSIVE ray(_, _, _, _, _, _)
\* One of the for loops of getRookMoves and getBishopMoves: the squares from
\* (row, col) on in direction (dr, dc), up to the loop's bound.
ray(b, color, row, col, dr, dc) ==
    IF ~ ( (dr > 0 => row < 8) /\ (dr < 0 => row >= 0)
           /\ (dc > 0 => col < 8) /\ (dc < 0 => col >= 0) )
    THEN <<>>
    ELSE LET p == pos(row, col)
         IN  IF isEmpty(b, p)
             THEN <<p>> \o ray(b, color, row + dr, col + dc, dr, dc)
             ELSE IF isEnemy(b, p, color) THEN <<p>> ELSE <<>>

getRookMoves(b, position, color) ==
    LET c == positionToCoordinates(position)
    IN  ray(b, color, c.row, c.col + 1, 0, 1)
        \o ray(b, color, c.row, c.col - 1, 0, -1)
        \o ray(b, color, c.row + 1, c.col, 1, 0)
        \o ray(b, color, c.row - 1, c.col, -1, 0)

getBishopMoves(b, position, color) ==
    LET c == positionToCoordinates(position)
    IN  ray(b, color, c.row + 1, c.col + 1, 1, 1)
        \o ray(b, color, c.row + 1, c.col - 1, 1, -1)
        \o ray(b, color, c.row - 1, c.col + 1, -1, 1)
        \o ray(b, color, c.row - 1, c.col - 1, -1, -1)

getQueenMoves(b, position, color) ==
    getRookMoves(b, position, color) \o getBishopMoves(b, position, color)

knightMoves == << <<2, 1>>, <<2, -1>>, <<-2, 1>>, <<-2, -1>>,
                  <<1, 2>>, <<1, -2>>, <<-1, 2>>, <<-1, -2>> >>

kingMoves == << <<1, 0>>, <<-1, 0>>, <<0, 1>>, <<0, -1>>,
                <<1, 1>>, <<1, -1>>, <<-1, 1>>, <<-1, -1>> >>

RECURSIVE knightFrom(_, _, _, _, _)
knightFrom(b, row, col, color, i) ==
    IF i > Len(knightMoves) THEN <<>>
    ELSE LET r == row + knightMoves[i][1]
             c == col + knightMoves[i][2]
             p == pos(r, c)
             rest == knightFrom(b, row, col, color, i + 1)
         IN  IF r >= 0 /\ r < 8 /\ c >= 0 /\ c < 8 /\ (isEmpty(b, p) \/ isEnemy(b, p, color))
             THEN <<p>> \o rest
             ELSE rest

getKnightMoves(b, position, color) ==
    LET c == positionToCoordinates(position)
    IN  knightFrom(b, c.row, c.col, color, 1)

RECURSIVE getLegalMoves(_, _, _), getKingMoves(_, _, _, _), kingFrom(_, _, _, _, _, _),
          isKingInCheck(_, _, _, _), checkFrom(_, _, _, _)

\* A call that never returns normally: the recursion between the two kings'
\* move generation does not end, and the runtime raises RangeError.
RangeError == [thrown |-> TRUE, moves |-> <<>>, value |-> FALSE]

returnMoves(moves) == [thrown |-> FALSE, moves |-> moves, value |-> FALSE]

returnValue(value) == [thrown |-> FALSE, moves |-> <<>>, value |-> value]

\* The loop of getKingMoves from the i-th candidate on.  `stack' is the set of
\* the isKingInCheck calls that are active.
kingFrom(b, row, col, color, i, stack) ==
    IF i > Len(kingMoves) THEN returnMoves(<<>>)
    ELSE LET r == row + kingMoves[i][1]
             c == col + kingMoves[i][2]
             p == pos(r, c)
         IN  IF r >= 0 /\ r < 8 /\ c >= 0 /\ c < 8 /\ (isEmpty(b, p) \/ isEnemy(b, p, color))
             THEN LET inCheck == isKingInCheck(b, p, color, stack)
                  IN  IF inCheck.thrown THEN RangeError
                      ELSE LET rest == kingFrom(b, row, col, color, i + 1, stack)
                           IN  IF rest.thrown THEN RangeError
                               ELSE returnMoves((IF inCheck.value THEN <<>> ELSE <<p>>) \o rest.moves)
             ELSE kingFrom(b, row, col, color, i + 1, stack)

getKingMoves(b, position, color, stack) ==
    LET c == positionToCoordinates(position)
    IN  kingFrom(b, c.row, c.col, color, 1, stack)

getLegalMoves(b, position, stack) ==
    LET whiteOccupied == isOccupiedBy(b, position, "white")
        blackOccupied == isOccupiedBy(b, position, "black")
        piece == getPieceAt(b, position)
    IN  IF ~whiteOccupied /\ ~blackOccupied THEN returnMoves(<<>>)
        ELSE IF piece = null THEN returnMoves(<<>>)
        ELSE IF piece.type \in {Pawn, PawnEnPassant}
        THEN returnMoves(getPawnMoves(b, position, piece.color))
        ELSE IF piece.type \in {Rook, RookCastle}
        THEN returnMoves(getRookMoves(b, position, piece.color))
        ELSE IF piece.type = Knight
        THEN returnMoves(getKnightMoves(b, position, piece.color))
        ELSE IF piece.type = Bishop
        THEN returnMoves(getBishopMoves(b, position, piece.color))
        ELSE IF piece.type = Queen
        THEN returnMoves(getQueenMoves(b, position, piece.color))
        ELSE IF piece.type \in {King, KingCastle}
        THEN getKingMoves(b, position, piece.color, stack)
        ELSE returnMoves(<<>>)

\* The double loop of isKingInCheck over the squares the opponent occupies
\* that are still to visit, in row-major order.
checkFrom(b, kingPosition, occupied, stack) ==
    IF occupied = {} THEN returnValue(FALSE)
    ELSE LET j == CHOOSE x \in occupied : \A y \in occupied : x <= y
             legalMoves == getLegalMoves(b, pos(j \div 8, j % 8), stack)
         IN  IF legalMoves.thrown THEN RangeError
             ELSE IF includes(legalMoves.moves, kingPosition) THEN returnValue(TRUE)
             ELSE checkFrom(b, kingPosition, occupied \ {j}, stack)

\* A call with the arguments of a call that is still active repeats that call's
\* steps, the board being unchanged, and so never returns.
isKingInCheck(b, kingPosition, color, stack) ==
    IF <<kingPosition, color>> \in stack THEN RangeError
    ELSE checkFrom(b, kingPosition,
                   {j \in 0..63 : isOccupiedBy(b, pos(j \div 8, j % 8), opposite(color))},
                   stack \cup {<<kingPosition, color>>})

isColorInCheck(b, color) ==
    LET kings == {j \in 0..63 :
                    LET piece == getPieceAt(b, pos(j \div 8, j % 8))
                    IN  piece # null /\ piece.type = King /\ piece.color = color}
    IN  IF kings = {} THEN returnValue(FALSE)
        ELSE LET j == CHOOSE x \in kings : \A y \in kings : x <= y
             IN  isKingInCheck(b, pos(j \div 8, j % 8), color, {})

isCheckmate(b, kingPosition, color) ==
    LET inCheck == isKingInCheck(b, kingPosition, color, {})
    IN  IF inCheck.thrown THEN RangeError
        ELSE IF ~inCheck.value THEN returnValue(FALSE)
        ELSE LET legalMoves == getLegalMoves(b, kingPosition, {})
             IN  IF legalMoves.thrown THEN RangeError
                 ELSE returnValue(Len(legalMoves.moves) = 0)

\* The symbols of getPieceSymbol, by piece type
symbols == <<"P", "R", "N", "B", "Q", "K", "P", "K", "R">>

toLowerCase(symbol) ==
    CASE symbol = "P" -> "p" [] symbol = "R" -> "r" [] symbol = "N" -> "n"
      [] symbol = "B" -> "b" [] symbol = "Q" -> "q" [] symbol = "K" -> "k"

TypeError == [thrown |-> TRUE, value |-> "TypeError"]

\* getPieceSymbol: a type without a symbol yields undefined, whose
\* toLowerCase raises a TypeError
getPieceSymbol(type, color) ==
    IF type \in DOMAIN symbols
    THEN [thrown |-> FALSE,
          value |-> IF color = "white" THEN symbols[type] ELSE toLowerCase(symbols[type])]
    ELSE IF color = "white" THEN [thrown |-> FALSE, value |-> "undefined"]
    ELSE TypeError

\* The entry of getDistribution for square index j
symbolAt(b, j) ==
    LET piece == getPieceAt(b, pos(j \div 8, j % 8))
    IN  IF piece = null THEN [thrown |-> FALSE, value |-> "."]
        ELSE getPieceSymbol(piece.type, piece.color)

\* getDistribution: the symbol of the piece getPieceAt builds for each square.
\* Only for a piece found in the black field is toLowerCase called, which is
\* what raises.
getDistribution(b) ==
    IF \E j \in (b.blackPieces \ b.whitePieces) \cap (0..63) : symbolAt(b, j).thrown
    THEN TypeError
    ELSE [thrown |-> FALSE, value |-> [j \in 1..64 |-> symbolAt(b, j - 1).value]]

\* between with each loop ending one column early
betweenNearKing(side) == IF side = "king" THEN {5} ELSE {2, 3}

\* The columns of the squares between the king and the rook that the loops
\* of canCastle visit
between(side) == IF side = "king" THEN 5..6 ELSE 1..3

canCastle(b, color, side) ==
    LET row == IF color = "white" THEN 0 ELSE 7
        kingPos == pos(row, 4)
        rookPos == IF side = "king" THEN pos(row, 7) ELSE pos(row, 0)
        kingPiece == getPieceAt(b, kingPos)
        rookPiece == getPieceAt(b, rookPos)
        newKingPos == IF side = "king" THEN pos(row, 6) ELSE pos(row, 2)
    IN  IF kingPiece = null \/ rookPiece = null THEN returnValue(FALSE)
        \* Check if the king or rook has moved
        ELSE IF kingPiece.type # King \/ rookPiece.type # Rook THEN returnValue(FALSE)
        \* Check if there are pieces between the king and the rook
        ELSE IF \E i \in between(side) : ~isEmpty(b, pos(row, i)) THEN returnValue(FALSE)
        \* Check if the king is in check
        ELSE LET inCheck == isKingInCheck(b, kingPos, color, {})
             IN  IF inCheck.thrown THEN RangeError
                 ELSE IF inCheck.value THEN returnValue(FALSE)
                 \* Check if the new position is being attacked
                 ELSE LET attacked == isKingInCheck(b, newKingPos, color, {})
                      IN  IF attacked.thrown THEN RangeError
                          ELSE returnValue(~attacked.value)

(***************************************************************************)
(* Mutation of the board                                                   *)
(***************************************************************************)
capturePiece(b, position) ==
    LET index == coordinatesToIndex(positionToCoordinates(position))
    IN  IF isOccupiedBy(b, position, "white")
        THEN [b EXCEPT !.whitePieces = removePiece(b.whitePieces, index)]
        ELSE IF isOccupiedBy(b, position, "black")
        THEN [b EXCEPT !.blackPieces = removePiece(b.blackPieces, index)]
        ELSE b

\* movePiece that tests blackOccupied before whiteOccupied
movePieceBlackFirst(b, from, to) ==
    LET fromIndex == coordinatesToIndex(positionToCoordinates(from))
        toIndex == coordinatesToIndex(positionToCoordinates(to))
        whiteOccupied == isOccupiedBy(b, from, "white")
        blackOccupied == isOccupiedBy(b, from, "black")
        piece == getPieceAt(b, from)
    IN  IF piece = null
        THEN [board |-> b, returned |-> FALSE]
        ELSE [board |->
                  [b EXCEPT
                     !.blackPieces =
                         IF blackOccupied
                         THEN setPiece(removePiece(@, fromIndex), toIndex, piece.type)
                         ELSE @,
                     !.whitePieces =
                         IF ~blackOccupied /\ whiteOccupied
                         THEN setPiece(removePiece(@, fromIndex), toIndex, piece.type)
                         ELSE @],
              returned |-> TRUE]

\* movePiece returns the new board and the boolean it returns.
\* A variant that reports success without testing for a piece on from
movePieceUnchecked(b, from, to) ==
    [board |-> movePieceBlackFirst(b, from, to).board, returned |-> TRUE]

movePiece(b, from, to) ==
    LET fromCoords == positionToCoordinates(from)
        toCoords == positionToCoordinates(to)
        fromIndex == coordinatesToIndex(fromCoords)
        toIndex == coordinatesToIndex(toCoords)
        whiteOccupied == isOccupiedBy(b, from, "white")
        blackOccupied == isOccupiedBy(b, from, "black")
        piece == getPieceAt(b, from)
        enPassantPos == pos(fromCoords.row, toCoords.col)
        \* Check for en passant capture
        b1 == IF piece.type = Pawn
                 /\ toCoords.row # NaN
                 /\ abs(fromCoords.row - toCoords.row) = 1
                 /\ abs(fromCoords.col - toCoords.col) = 1
                 /\ isEmpty(b, to)
                 /\ isOccupiedBy(b, enPassantPos, opposite(piece.color))
              THEN capturePiece(b, enPassantPos)
              ELSE b
        \* Move the piece to the new position
        b2 == [b1 EXCEPT
                 !.whitePieces =
                     IF whiteOccupied
                     THEN setPiece(removePiece(@, fromIndex), toIndex, piece.type)
                     ELSE @,
                 !.blackPieces =
                     IF ~whiteOccupied /\ blackOccupied
                     THEN setPiece(removePiece(@, fromIndex), toIndex, piece.type)
                     ELSE @]
        \* Clear en passant flags if necessary
        b3 == [b2 EXCEPT
                 !.pawnsEnPassantWhite =
                     IF piece.type = Pawn /\ piece.color = "white"
                     THEN IF fromCoords.row = 1 /\ toCoords.row = 3
                          THEN setPiece({}, toIndex, PawnEnPassant)
                          ELSE {}
                     ELSE @,
                 !.pawnsEnPassantBlack =
                     IF piece.type = Pawn /\ piece.color # "white"
                     THEN IF fromCoords.row = 6 /\ toCoords.row = 4
                          THEN setPiece({}, toIndex, PawnEnPassant)
                          ELSE {}
                     ELSE @]
    IN  IF piece = null
        THEN [board |-> b, returned |-> FALSE]
        ELSE [board |-> b3, returned |-> TRUE]

\* isEnPassant(from, to)
isEnPassant(b, from, to) ==
    LET fromPiece == getPieceAt(b, from)
        toPiece == getPieceAt(b, to)
        fromCoord == positionToCoordinates(from)
        toCoord == positionToCoordinates(to)
    IN  IF fromPiece.type # Pawn \/ toPiece # null
        THEN FALSE
        ELSE toCoord.row # NaN /\ abs(fromCoord.row - toCoord.row) = 2

\* promotion(from, to, type): the board afterwards and the value returned
promotion(b, from, to, type) ==
    LET fromPiece == getPieceAt(b, from)
        coord == positionToCoordinates(to)
        index == coordinatesToIndex(coord)
    IN  IF fromPiece = null \/ fromPiece.type # Pawn
        THEN [board |-> b, returned |-> FALSE]
        ELSE [board |->
                 [b EXCEPT
                    !.whitePieces =
                        IF fromPiece.color = "white"
                        THEN setPiece(removePiece(@, index), index, type)
                        ELSE @,
                    !.blackPieces =
                        IF fromPiece.color # "white"
                        THEN setPiece(removePiece(@, index), index, type)
                        ELSE @],
              returned |-> TRUE]

(***************************************************************************)
(* ChessBoard constructor                                                  *)
(***************************************************************************)
RECURSIVE setPieces(_, _, _)
\* setPiece applied for each <<index, type>> of a sequence, in order
setPieces(board, placed, i) ==
    IF i > Len(placed) THEN board
    ELSE setPieces(setPiece(board, placed[i][1], placed[i][2]), placed, i + 1)

initializeWhitePieces ==
    setPieces({}, [i \in 1..8 |-> <<7 + i, Pawn>>]
                  \o << <<0, Rook>>, <<7, Rook>>, <<1, Knight>>, <<6, Knight>>,
                        <<2, Bishop>>, <<5, Bishop>>, <<3, Queen>>, <<4, King>> >>, 1)

\* initializeBlackPieces with the queen and the king on each other's square
initializeBlackPiecesSwapped ==
    setPieces({}, [i \in 1..8 |-> <<47 + i, Pawn>>]
                  \o << <<56, Rook>>, <<63, Rook>>, <<57, Knight>>, <<62, Knight>>,
                        <<58, Bishop>>, <<61, Bishop>>, <<60, Queen>>, <<59, King>> >>, 1)

initializeBlackPieces ==
    setPieces({}, [i \in 1..8 |-> <<47 + i, Pawn>>]
                  \o << <<56, Rook>>, <<63, Rook>>, <<57, Knight>>, <<62, Knight>>,
                        <<58, Bishop>>, <<61, Bishop>>, <<59, Queen>>, <<60, King>> >>, 1)

newChessBoard ==
    [whitePieces |-> initializeWhitePieces,
     blackPieces |-> initializeBlackPieces,
     pawnsEnPassantWhite |-> {},
     pawnsEnPassantBlack |-> {}]

(***************************************************************************)
(* ChessPlayer and ChessGame                                               *)
(***************************************************************************)
VARIABLES
    board,        \* ChessGame.board: the bit fields of the ChessBoard
    turn,         \* ChessGame.turn
    sides,        \* ChessGame.sides: side -> player
    playerTable,  \* ChessGame.playerTable: user id -> player
    players,      \* ChessGame.players
    history,      \* ChessGame.history: the <<from, to>> of each recorded move
    state,        \* ChessGame.state
    thrown        \* what the last call raised, "" when it returned normally

vars == <<board, turn, sides, playerTable, players, history, state, thrown>>

\* The ChessGame object as one record
game ==
    [board |-> board, turn |-> turn, sides |-> sides, playerTable |-> playerTable,
     players |-> players, history |-> history, state |-> state]

\* new ChessPlayer(user, game)
ChessPlayer(user) == [id |-> user, side |-> "white"]

oppositeSide(player) == IF player.side = "white" THEN "black" ELSE "white"

\* obj[key] = value
put(obj, key, value) ==
    [k \in DOMAIN obj \cup {key} |-> IF k = key THEN value ELSE obj[k]]

\* addPlayer that leaves the second player on the side it was made with
addPlayerSameSide(g, user) ==
    IF Len(g.players) = 2 THEN g
    ELSE LET player == ChessPlayer(user)
         IN  [g EXCEPT !.players = Append(g.players, player),
                       !.playerTable = put(g.playerTable, user, player),
                       !.sides = put(g.sides, player.side, player)]

addPlayer(g, user) ==
    IF Len(g.players) = 2 THEN g
    ELSE LET made == ChessPlayer(user)
             player == IF Len(g.players) = 1
                       THEN [made EXCEPT !.side = oppositeSide(g.players[1])]
                       ELSE made
         IN  [g EXCEPT !.players = Append(g.players, player),
                       !.playerTable = put(g.playerTable, user, player),
                       !.sides = put(g.sides, player.side, player)]

\* The errors ChessGame.move raises itself (Chat.ErrorMessage)
InvalidMove == "Invalid move"
NoPiece == "There is no piece"
NotYourTurn == "It's not your turn to move."
OwnPiece == "You can't capture your own piece."
ErrorMessages == {InvalidMove, NoPiece, NotYourTurn, OwnPiece}

returned(g) == [game |-> g, thrown |-> ""]

throw(g, error) == [game |-> g, thrown |-> error]

\* history.push with the entry put in front
pushFront(list, entry) == <<entry>> \o list

\* this.history.push
push(list, entry) == Append(list, entry)

\* sendBoard: getBoard, and so getDistribution, once for each player
sendBoard(g) ==
    IF Len(g.players) > 0 /\ getDistribution(g.board).thrown
    THEN throw(g, "TypeError")
    ELSE returned(g)

\* sendBoarForPosition with the en-passant marks cleared as the board is drawn
sendBoarForPositionClearingMarks(g, player) ==
    returned([g EXCEPT !.board.pawnsEnPassantWhite = {}, !.board.pawnsEnPassantBlack = {}])

\* sendBoarForPosition: the board is drawn for a player of the game
sendBoarForPosition(g, player) ==
    IF player.id \in DOMAIN g.playerTable /\ getDistribution(g.board).thrown
    THEN throw(g, "TypeError")
    ELSE returned(g)

\* move with the colour test placed after movePiece: the call is rejected
\* with the move already made and recorded.
moveWithLateTurnTest(g, player, from, to, legalMoves) ==
    LET fromPos == coordinatesToPosition(positionToCoordinates(from))
        toPos == coordinatesToPosition(positionToCoordinates(to))
        fromPiece == getPieceAt(g.board, fromPos)
        made == movePiece(g.board, fromPos, toPos)
        g1 == [g EXCEPT !.board = made.board, !.history = Append(g.history, <<from, to>>)]
    IN  IF legalMoves.thrown THEN throw(g, "RangeError")
        ELSE IF ~includes(legalMoves.moves, toPos) THEN throw(g, InvalidMove)
        ELSE IF fromPiece.color # player.side THEN throw(g1, NotYourTurn)
        ELSE IF oppositeSide(player) \in DOMAIN g1.sides
        THEN returned([g1 EXCEPT !.turn = g1.sides[oppositeSide(player)].side])
        ELSE throw(g1, "TypeError")

\* ChessGame.move; legalMoves is the result of the call
\* this.board.getLegalMoves(fromPos) of its first statement.
moveWith(g, player, from, to, legalMoves) ==
    LET fromPos == coordinatesToPosition(positionToCoordinates(from))
        toPos == coordinatesToPosition(positionToCoordinates(to))
        fromPiece == getPieceAt(g.board, fromPos)
        toPiece == getPieceAt(g.board, toPos)
        made == movePiece(g.board, fromPos, toPos)
        g1 == [g EXCEPT !.board = made.board, !.history = push(g.history, <<from, to>>)]
    IN  IF legalMoves.thrown THEN throw(g, "RangeError")
        ELSE IF ~includes(legalMoves.moves, toPos) THEN throw(g, InvalidMove)
        ELSE IF fromPiece = null THEN throw(g, NoPiece)
        ELSE IF fromPiece.color # player.side THEN throw(g, NotYourTurn)
        ELSE IF toPiece # null /\ toPiece.color = player.side THEN throw(g, OwnPiece)
        ELSE IF made.returned
        THEN IF sendBoard(g1).thrown # "" THEN throw(g1, "TypeError")
             ELSE IF oppositeSide(player) \in DOMAIN g1.sides
             THEN returned([g1 EXCEPT !.turn = g1.sides[oppositeSide(player)].side])
             ELSE throw(g1, "TypeError")
        ELSE returned([g EXCEPT !.board = made.board])

move(g, player, from, to) ==
    moveWith(g, player, from, to,
             getLegalMoves(g.board, coordinatesToPosition(positionToCoordinates(from)), {}))

\* start that puts a game in which a move was made back to Prepared
startResetting(g) ==
    LET g1 == [g EXCEPT !.state = IF Len(g.history) > 0 THEN Prepared ELSE Active]
        g2 == IF "white" \in DOMAIN g1.sides
              THEN [g1 EXCEPT !.turn = g1.sides["white"].id]
              ELSE g1
    IN  IF g2.turn \in DOMAIN g2.playerTable THEN returned(g2) ELSE throw(g2, "TypeError")

start(g) ==
    LET g1 == [g EXCEPT !.state = Active]
        g2 == IF "white" \in DOMAIN g1.sides
              THEN [g1 EXCEPT !.turn = g1.sides["white"].id]
              ELSE g1
    IN  IF g2.turn \in DOMAIN g2.playerTable THEN returned(g2) ELSE throw(g2, "TypeError")

(***************************************************************************)
(* The calls made on a game                                                *)
(***************************************************************************)
\* Bounds of the exploration
MaxFree == 1
MaxEarly == 1

\* The users, in the order in which they ask to join
Users == <<"u1", "u2">>

at(file, rank) == <<file, digits[rank + 1]>>

\* The 64 position strings a1 .. h8
Squares == {at(letters[c], r) : c \in 1..8, r \in 1..8}

mv(f1, r1, f2, r2) == <<at(f1, r1), at(f2, r2)>>

\* Opening lines: the arguments of the first calls of move.  After a whole
\* line of FreeLines, MaxFree further moves are tried.
LineEnPassant == <<mv("e", 2, "e", 4), mv("a", 7, "a", 6), mv("e", 4, "e", 5), mv("d", 7, "d", 5)>>
LinePin == <<mv("e", 2, "e", 4), mv("e", 7, "e", 5), mv("d", 1, "h", 5)>>
LineKingWalk == <<mv("e", 2, "e", 4), mv("c", 7, "c", 5), mv("e", 1, "e", 2), mv("c", 5, "c", 4)>>
LineQueenRaid == <<mv("e", 2, "e", 4), mv("f", 7, "f", 6), mv("d", 1, "h", 5), mv("a", 7, "a", 6)>>
LineRookPawn ==
    <<mv("h", 2, "h", 4), mv("b", 8, "c", 6), mv("h", 4, "h", 5), mv("c", 6, "b", 8),
      mv("h", 5, "h", 6), mv("b", 8, "c", 6), mv("h", 6, "g", 7), mv("c", 6, "b", 8)>>
LineCentre == <<mv("e", 2, "e", 4), mv("d", 7, "d", 5)>>
LineKings == <<mv("e", 2, "e", 4), mv("e", 7, "e", 5)>>

\* The fool's mate
LineFoolsMate == <<mv("f", 2, "f", 3), mv("e", 7, "e", 5), mv("g", 2, "g", 4), mv("d", 8, "h", 4)>>
\* A game without captures or king moves after which white has no legal move
LineStalemate ==
    <<mv("d", 2, "d", 4), mv("d", 7, "d", 6), mv("d", 1, "d", 2), mv("e", 7, "e", 5),
      mv("a", 2, "a", 4), mv("e", 5, "e", 4), mv("d", 2, "f", 4), mv("f", 7, "f", 5),
      mv("h", 2, "h", 3), mv("f", 8, "e", 7), mv("f", 4, "h", 2), mv("c", 8, "e", 6),
      mv("a", 1, "a", 3), mv("c", 7, "c", 5), mv("a", 3, "g", 3), mv("d", 8, "a", 5),
      mv("b", 1, "d", 2), mv("e", 7, "h", 4), mv("f", 2, "f", 3), mv("e", 6, "b", 3),
      mv("d", 4, "d", 5), mv("e", 4, "e", 3), mv("c", 2, "c", 4), mv("f", 5, "f", 4)>>
\* White clears f1 and g1 with a black bishop on a6, then moves the rook and back
LineCastle ==
    <<mv("e", 2, "e", 4), mv("b", 7, "b", 6), mv("g", 2, "g", 3), mv("c", 8, "a", 6),
      mv("f", 1, "g", 2), mv("b", 8, "c", 6), mv("g", 1, "f", 3), mv("c", 6, "b", 8),
      mv("h", 1, "g", 1), mv("b", 8, "c", 6), mv("g", 1, "h", 1)>>

\* The black queen checks the white king, whose pawn on g2 can step between
LineBlockedCheck ==
    <<mv("f", 2, "f", 3), mv("e", 7, "e", 5), mv("h", 2, "h", 3), mv("d", 8, "h", 4)>>

\* Calls with a string that is no square: characters after the square
LineTrailing == << << <<"e", "2", "x">>, at("e", 4) >>, << at("d", 7), <<"d", "5", "5">> >> >>

\* The h pawn takes the rook on h8 and is then moved on as getLegalMoves offers
LinePawnOffBoard ==
    LineRookPawn \o <<mv("g", 7, "h", 8), mv("b", 8, "c", 6), <<at("h", 8), <<"h", "9">> >> >>

\* The lines after which further moves are tried
FreeLines == {LineKingWalk, LineQueenRaid, LineRookPawn, LineCentre}

Lines == FreeLines \cup {<<>>, LineEnPassant, LinePin, LineKings, LineFoolsMate, LineStalemate,
                         LineCastle, LineBlockedCheck, LineTrailing, LinePawnOffBoard}

\* Calls with a string that is no square: a rank that is not on the board
Malformed == {<< <<"e", "9">>, at("e", 8) >>, << at("e", 2), <<"e", "0">> >>}

\* Calls that move must reject on most boards: onto an own piece, from == to,
\* from an empty square, to a square the piece cannot reach.
Probes == {mv("e", 1, "d", 1), mv("e", 8, "d", 8), mv("e", 4, "e", 4),
           mv("a", 4, "a", 5), mv("e", 2, "e", 5), mv("b", 7, "b", 5)}
          \cup Malformed

\* The strings given as from
Froms ==
    Squares \cup {c[1] : c \in Probes} \cup UNION {{l[i][1] : i \in DOMAIN l} : l \in Lines}

isPrefix(s, t) == Len(s) <= Len(t) /\ SubSeq(t, 1, Len(s)) = s

\* the next moves of the opening lines that begin with the moves made so far
nextOnLine ==
    {l[Len(history) + 1] : l \in {x \in Lines : Len(x) > Len(history) /\ isPrefix(history, x)}}

\* fewer than MaxFree moves were made since the end of an opening line
afterLine == \E l \in FreeLines : isPrefix(l, history) /\ Len(history) - Len(l) < MaxFree

seated == Len(players) = 2 /\ state = Active

Init ==
    /\ board = newChessBoard
    /\ turn = ""
    /\ sides = [k \in {} |-> k]
    /\ playerTable = [k \in {} |-> k]
    /\ players = <<>>
    /\ history = <<>>
    /\ state = Prepared
    /\ thrown = ""

\* The fields of the game after a call, and what the call raised
becomes(result) ==
    /\ board' = result.game.board
    /\ turn' = result.game.turn
    /\ sides' = result.game.sides
    /\ playerTable' = result.game.playerTable
    /\ players' = result.game.players
    /\ history' = result.game.history
    /\ state' = result.game.state
    /\ thrown' = result.thrown

\* The next user joins; once two players are seated any user may ask.
AddPlayer(user) ==
    /\ Len(history) <= MaxEarly
    /\ Len(players) < 2 => user = Users[Len(players) + 1]
    /\ becomes(returned(addPlayer(game, user)))

Start ==
    /\ Len(history) <= MaxEarly
    /\ becomes(start(game))

\* game.move(game.getPlayer(user), from, to).  On an opening line the call is
\* the line's next move; after a line, to is any destination getLegalMoves
\* offers for from (on the board or not); the calls of Probes are made as well.
Move(from) ==
    LET legalMoves ==
            getLegalMoves(board, coordinatesToPosition(positionToCoordinates(from)), {})
        lined == seated \/ Len(history) < MaxEarly
        free == afterLine /\ seated
        tos == (IF lined THEN {c[2] : c \in {x \in nextOnLine : x[1] = from}} ELSE {})
               \cup (IF free THEN {legalMoves.moves[i] : i \in 1..Len(legalMoves.moves)} ELSE {})
               \cup (IF (lined /\ nextOnLine # {}) \/ free
                     THEN {c[2] : c \in {x \in Probes : x[1] = from}} ELSE {})
    IN  \E to \in tos :
            \E user \in DOMAIN playerTable :
                becomes(moveWith(game, playerTable[user], from, to, legalMoves))

\* The legal command of a player: game.sendBoarForPosition(game.getPlayer(user), location)
Legal ==
    \E user \in DOMAIN playerTable :
        becomes(sendBoarForPosition(game, playerTable[user]))

Next ==
    \/ \E i \in DOMAIN Users : AddPlayer(Users[i])
    \/ Start
    \/ \E from \in Froms : Move(from)
    \/ Legal

Spec == Init /\ [][Next]_vars

\* The games of the opening lines alone, played by two seated players:
\* further moves are tried after LineCentre only and no probe call is made.
afterCentre == isPrefix(LineCentre, history) /\ Len(history) - Len(LineCentre) < MaxFree

LineMove(from) ==
    LET legalMoves ==
            getLegalMoves(board, coordinatesToPosition(positionToCoordinates(from)), {})
        tos == {c[2] : c \in {x \in nextOnLine : x[1] = from}}
               \cup (IF afterCentre
                     THEN {legalMoves.moves[i] : i \in 1..Len(legalMoves.moves)} ELSE {})
    IN  /\ seated
        /\ \E to \in tos :
               \E user \in DOMAIN playerTable :
                   becomes(moveWith(game, playerTable[user], from, to, legalMoves))

NextLines ==
    \/ \E i \in DOMAIN Users : AddPlayer(Users[i])
    \/ Start
    \/ \E from \in Froms : LineMove(from)
    \/ Legal

SpecLines == Init /\ [][NextLines]_vars

(***************************************************************************)
(* Vocabulary of the properties                                            *)
(***************************************************************************)
\* The position string of square index j of the 8x8 board
square(j) == pos(j \div 8, j % 8)

\* The squares of the board on which getPieceAt finds a piece of a type and colour
found(b, type, color) ==
    {j \in 0..63 : LET piece == getPieceAt(b, square(j))
                   IN  piece.type = type /\ piece.color = color}

\* A step in which move recorded a move
moved == Len(history') = Len(history) + 1

\* The arguments of the move recorded by such a step, normalised as move does
movedFrom == coordinatesToPosition(positionToCoordinates(history'[Len(history')][1]))
movedTo == coordinatesToPosition(positionToCoordinates(history'[Len(history')][2]))

\* The piece that such a step moves, as it stood before the step
movedPiece == getPieceAt(board, movedFrom)

\* Some piece of a colour on the board has a position in its move set
inMoveSet(b, position, color) ==
    \E j \in 0..63 :
        /\ getPieceAt(b, square(j)).color = color
        /\ includes(getLegalMoves(b, square(j), {}).moves, position)

\* The side that turn designates: turn holds a user id after start and a
\* side after a move
turnSide ==
    IF turn \in {"white", "black"} THEN turn
    ELSE IF turn \in DOMAIN playerTable THEN playerTable[turn].side
    ELSE "none"

(***************************************************************************)
(* C1: no square is marked occupied in both the white and the black bit    *)
(* field.                                                                  *)
(***************************************************************************)
C1_NoSharedSquare ==
    \A j \in 0..63 : ~(j \in board.whitePieces /\ j \in board.blackPieces)

(***************************************************************************)
(* C2: once the game is started, a move is recorded only for the side      *)
(* whose turn it is, so the recorded moves alternate.                      *)
(***************************************************************************)
C2_OnlyOnTurn ==
    [][moved /\ state = Active /\ turnSide # "none" => movedPiece.color = turnSide]_vars

(***************************************************************************)
(* C3: after a recorded move of a piece other than a king, the mover's     *)
(* king is in no opposing piece's move set.                                *)
(***************************************************************************)
C3_NoSelfCheck ==
    [][moved /\ movedPiece.type # King
         => \A k \in found(board', King, movedPiece.color) :
                ~inMoveSet(board', square(k), opposite(movedPiece.color))]_vars

(***************************************************************************)
(* C4: after a recorded king move, the square the king stands on is in no  *)
(* opposing piece's move set.                                              *)
(***************************************************************************)
C4_KingNotIntoCheck ==
    [][moved /\ movedPiece.type = King
         => ~inMoveSet(board', movedTo, opposite(movedPiece.color))]_vars

(***************************************************************************)
(* C5: a call of move that is rejected with one of move's error messages   *)
(* leaves the bit fields, the en-passant marks, the history, the turn and  *)
(* the state as they were.                                                 *)
(***************************************************************************)
C5_RejectedChangesNothing ==
    [][thrown' \in ErrorMessages
         => UNCHANGED <<board, turn, sides, playerTable, players, history, state>>]_vars

\* A call was rejected on a board on which moves have been made
C5_Witness == thrown \in ErrorMessages /\ Len(history) >= 2

(***************************************************************************)
(* C6: on every reachable board the check computations return: the check   *)
(* of each colour, and the move generation and the checkmate test of each  *)
(* king.                                                                   *)
(***************************************************************************)
C6_CheckTerminates ==
    \A color \in {"white", "black"} :
        /\ ~isColorInCheck(board, color).thrown
        /\ \A k \in found(board, King, color) :
               /\ ~getLegalMoves(board, square(k), {}).thrown
               /\ ~isCheckmate(board, square(k), color).thrown

(***************************************************************************)
(* C7: getPieceAt over the 64 squares finds exactly one white king and     *)
(* exactly one black king.                                                 *)
(***************************************************************************)
C7_OneKingEach ==
    \A color \in {"white", "black"} : Cardinality(found(board, King, color)) = 1

(***************************************************************************)
(* C8: no pawn stands on row 0 or on row 7.                                *)
(***************************************************************************)
C8_NoPawnOnFarRank ==
    \A color \in {"white", "black"} :
        \A j \in found(board, Pawn, color) : j \div 8 \notin {0, 7}

(***************************************************************************)
(* C9: right after a pawn's two-square advance, an enemy pawn beside it on *)
(* the same rank is offered the skipped square, and moving there removes   *)
(* the advanced pawn and puts the capturing pawn on the skipped square.    *)
(***************************************************************************)
\* The last recorded move was a two-square advance of the pawn now on `to'
advancedTwo(to) ==
    /\ Len(history) > 0
    /\ coordinatesToPosition(positionToCoordinates(history[Len(history)][2])) = to
    /\ LET f == positionToCoordinates(history[Len(history)][1])
           t == positionToCoordinates(to)
       IN  f.col = t.col /\ abs(f.row - t.row) = 2
    /\ getPieceAt(board, to).type = Pawn

C9_EnPassantCapture ==
    \A j \in 0..63, side \in {-1, 1} :
        LET to == square(j)
            t == positionToCoordinates(to)
            advanced == getPieceAt(board, to)
            beside == pos(t.row, t.col + side)
            capturer == getPieceAt(board, beside)
            skipped == pos(IF advanced.color = "white" THEN t.row - 1 ELSE t.row + 1, t.col)
            after == movePiece(board, beside, skipped).board
        IN  advancedTwo(to) /\ t.col + side \in 0..7
            /\ capturer.type = Pawn /\ capturer.color = opposite(advanced.color)
            => /\ includes(getLegalMoves(board, beside, {}).moves, skipped)
               /\ isEmpty(after, to)
               /\ getPieceAt(after, skipped).type = Pawn
               /\ getPieceAt(after, skipped).color = capturer.color

(***************************************************************************)
(* C10: a two-square pawn advance sets the en-passant mark of that pawn,   *)
(* and after any recorded move, an en-passant capture apart, the only mark *)
(* that is set is the mark of that very move.                              *)
(***************************************************************************)
C10_MarkLastsOneMove ==
    [][moved
         => LET f == positionToCoordinates(movedFrom)
                t == positionToCoordinates(movedTo)
                marks == board'.pawnsEnPassantWhite \cup board'.pawnsEnPassantBlack
                advance == movedPiece.type = Pawn /\ f.col = t.col /\ abs(f.row - t.row) = 2
                capture == movedPiece.type = Pawn /\ f.col # t.col /\ isEmpty(board, movedTo)
            IN  \/ capture
                \/ marks = (IF advance
                            THEN setPiece({}, coordinatesToIndex(t), PawnEnPassant)
                            ELSE {})]_vars

(***************************************************************************)
(* The rules of chess on the pieces getPieceAt finds, for the claims that  *)
(* speak of check and of legal moves.  Castling and the en-passant capture *)
(* are left out: castling is never a side's only move, and the claims      *)
(* below are read after a move other than a two-square pawn advance.       *)
(***************************************************************************)
\* The piece getPieceAt finds on each square
layout(b) == [j \in 0..63 |-> getPieceAt(b, square(j))]

sign(x) == IF x > 0 THEN 1 ELSE IF x < 0 THEN -1 ELSE 0

\* The squares strictly between j and k, which lie on one line, are empty
clearBetween(L, j, k) ==
    LET r == (k \div 8) - (j \div 8)
        c == (k % 8) - (j % 8)
        n == IF abs(r) > abs(c) THEN abs(r) ELSE abs(c)
    IN  \A i \in 1..(n - 1) : L[j + i * (8 * sign(r) + sign(c))] = null

\* The piece on square j attacks square k
attacksSquare(L, j, k) ==
    LET r == (k \div 8) - (j \div 8)
        c == (k % 8) - (j % 8)
        type == L[j].type
    IN  /\ j # k
        /\ CASE type = Pawn -> abs(c) = 1 /\ r = (IF L[j].color = "white" THEN 1 ELSE -1)
              [] type = Knight -> {abs(r), abs(c)} = {1, 2}
              [] type = King -> abs(r) <= 1 /\ abs(c) <= 1
              [] type = Rook -> (r = 0 \/ c = 0) /\ clearBetween(L, j, k)
              [] type = Bishop -> abs(r) = abs(c) /\ clearBetween(L, j, k)
              [] type = Queen ->
                    (r = 0 \/ c = 0 \/ abs(r) = abs(c)) /\ clearBetween(L, j, k)
              [] OTHER -> FALSE

\* Some piece of a colour attacks square k
isAttacked(L, k, color) ==
    \E j \in 0..63 : L[j].color = color /\ attacksSquare(L, j, k)

\* The piece on square j may go to square k by the way it moves
pseudoLegal(L, j, k) ==
    LET r == (k \div 8) - (j \div 8)
        c == (k % 8) - (j % 8)
        forward == IF L[j].color = "white" THEN 1 ELSE -1
        home == IF L[j].color = "white" THEN 1 ELSE 6
    IN  /\ L[k].color # L[j].color
        /\ IF L[j].type = Pawn
           THEN \/ c = 0 /\ r = forward /\ L[k] = null
                \/ /\ c = 0 /\ r = 2 * forward /\ j \div 8 = home
                   /\ L[j + 8 * forward] = null /\ L[k] = null
                \/ abs(c) = 1 /\ r = forward /\ L[k] # null
           ELSE attacksSquare(L, j, k)

\* The pieces after the piece on square j went to square k
played(L, j, k) ==
    [x \in 0..63 |-> IF x = k THEN L[j] ELSE IF x = j THEN null ELSE L[x]]

\* A colour's king is attacked
inCheck(L, color) ==
    \E x \in 0..63 :
        L[x].type = King /\ L[x].color = color /\ isAttacked(L, x, opposite(color))

\* A legal move: a move that leaves the mover's king unattacked
legalMove(L, j, k) ==
    pseudoLegal(L, j, k) /\ ~inCheck(played(L, j, k), L[j].color)

noLegalMove(L, color) ==
    \A j \in 0..63 : L[j].color = color => \A k \in 0..63 : ~legalMove(L, j, k)

\* The recorded move was a two-square advance of a pawn
movedTwo ==
    /\ movedPiece.type = Pawn
    /\ abs(positionToCoordinates(movedFrom).row - positionToCoordinates(movedTo).row) = 2

(***************************************************************************)
(* C11: when a recorded move leaves the side now to move in check and      *)
(* without a legal move, the state of the game becomes Checkmate.          *)
(***************************************************************************)
C11_CheckmateEndsGame ==
    [][moved /\ thrown' = "" /\ ~movedTwo
         => LET L == layout(board')
                side == opposite(movedPiece.color)
            IN  inCheck(L, side) /\ noLegalMove(L, side) => state' = Checkmate]_vars

(***************************************************************************)
(* C12: when a recorded move leaves the side now to move out of check and  *)
(* without a legal move, the state of the game becomes Stalemate.          *)
(***************************************************************************)
C12_StalemateEndsGame ==
    [][moved /\ thrown' = "" /\ ~movedTwo
         => LET L == layout(board')
                side == opposite(movedPiece.color)
            IN  ~inCheck(L, side) /\ noLegalMove(L, side) => state' = Stalemate]_vars

(***************************************************************************)
(* C13: the state only moves forward.  It leaves Prepared only for Active  *)
(* and only in a call of start, which leaves the board, the history and    *)
(* the players alone; it leaves Active only for Checkmate, Stalemate or    *)
(* Draw; it never leaves one of those three.                               *)
(***************************************************************************)
C13_StateMovesForward ==
    [][/\ state = Prepared /\ state' # Prepared
          => state' = Active /\ UNCHANGED <<board, history, players, sides, playerTable>>
       /\ state = Active => state' \in {Active, Checkmate, Stalemate, Draw}
       /\ state \in {Checkmate, Stalemate, Draw} => state' = state]_vars

\* A started game in which moves were made
C13_Witness == state = Active /\ Len(history) >= 2 /\ Len(players) = 2

(***************************************************************************)
(* Vocabulary of the castling claims                                       *)
(***************************************************************************)
CastleSides == {<<color, side>> : color \in {"white", "black"}, side \in {"king", "queen"}}

homeRow(color) == IF color = "white" THEN 0 ELSE 7

\* The home squares of the king and of the rook of a side, as indices
kingHome(color) == 8 * homeRow(color) + 4
rookHome(color, side) == 8 * homeRow(color) + (IF side = "king" THEN 7 ELSE 0)

\* Some recorded move left from square j or arrived on it
touched(j) ==
    \E i \in 1..Len(history) :
        \/ coordinatesToPosition(positionToCoordinates(history[i][1])) = square(j)
        \/ coordinatesToPosition(positionToCoordinates(history[i][2])) = square(j)

\* canCastle returns true
castles(color, side) ==
    LET result == canCastle(board, color, side)
    IN  ~result.thrown /\ result.value

(***************************************************************************)
(* C14: canCastle does not return true for a colour and a side once a      *)
(* recorded move has left from, or arrived on, the home square of that     *)
(* colour's king or of the rook of that side: the king or the rook has     *)
(* moved, or the rook was captured.                                        *)
(***************************************************************************)
C14_NoCastleAfterMoving ==
    \A cs \in CastleSides :
        touched(kingHome(cs[1])) \/ touched(rookHome(cs[1], cs[2])) => ~castles(cs[1], cs[2])

(***************************************************************************)
(* C15: canCastle does not return true when the king's square, the square  *)
(* the king passes over or the square the king arrives on is attacked by   *)
(* an opposing piece.                                                      *)
(***************************************************************************)
C15_NoCastleThroughAttack ==
    \A cs \in CastleSides :
        LET step == IF cs[2] = "king" THEN 1 ELSE -1
            L == layout(board)
        IN  (\E i \in 0..2 : isAttacked(L, kingHome(cs[1]) + i * step, opposite(cs[1])))
            => ~castles(cs[1], cs[2])

(***************************************************************************)
(* C16: canCastle returns false when a square strictly between the home    *)
(* squares of the king and of the rook is marked occupied in either bit    *)
(* field.                                                                  *)
(***************************************************************************)
\* The squares strictly between the home squares of the king and of the rook
strictlyBetween(color, side) ==
    {8 * homeRow(color) + c : c \in IF side = "king" THEN {5, 6} ELSE {1, 2, 3}}

C16_NoCastleOverPieces ==
    \A cs \in CastleSides :
        (strictlyBetween(cs[1], cs[2]) \cap (board.whitePieces \cup board.blackPieces) # {})
        => canCastle(board, cs[1], cs[2]) = returnValue(FALSE)

\* The white king and king's rook on their home squares, f1 empty, g1 occupied
C16_Witness ==
    /\ getPieceAt(board, square(4)).type = King
    /\ getPieceAt(board, square(7)).type = Rook
    /\ 5 \notin board.whitePieces \cup board.blackPieces
    /\ 6 \in board.whitePieces \cup board.blackPieces

(***************************************************************************)
(* C17: on the board as constructed, getPieceAt finds the starting layout  *)
(* of chess on the 64 squares, and getLegalMoves returns, without raising, *)
(* the two advances of each pawn, two destinations for each knight and     *)
(* none for any other piece.                                               *)
(***************************************************************************)
\* The piece types of the first rank of either side, from the a file to the h file
backRank == <<Rook, Knight, Bishop, Queen, King, Bishop, Knight, Rook>>

\* The type and the colour of the piece that starts on square j
startType(j) ==
    IF j \div 8 \in {0, 7} THEN backRank[(j % 8) + 1]
    ELSE IF j \div 8 \in {1, 6} THEN Pawn
    ELSE 0

startColor(j) ==
    IF j \div 8 \in {0, 1} THEN "white" ELSE IF j \div 8 \in {6, 7} THEN "black" ELSE "none"

Coordinates == {[row |-> r, col |-> c] : r \in 0..7, c \in 0..7}

C18_ConversionsRoundTrip ==
    /\ \A s \in Squares : coordinatesToPosition(positionToCoordinates(s)) = s
    /\ \A j \in board.whitePieces \cup board.blackPieces :
           j \in 0..63 => coordinatesToIndex(positionToCoordinates(square(j))) = j
    /\ \A c \in Coordinates : positionToCoordinates(coordinatesToPosition(c)) = c
    /\ {coordinatesToIndex(c) : c \in Coordinates} = 0..63
    /\ Cardinality(Coordinates) = Cardinality(0..63)

\* move has converted the squares of a recorded move to coordinates and back
C18_Witness ==
    /\ Len(history) > 0
    /\ history[Len(history)][1] \in Squares
    /\ coordinatesToPosition(positionToCoordinates(history[Len(history)][1]))
           = history[Len(history)][1]

C20_HistoryAppendOnly ==
    [][/\ \/ history' = history
          \/ /\ moved
             /\ SubSeq(history', 1, Len(history)) = history
             /\ board' = movePiece(board, movedFrom, movedTo).board
       /\ thrown' \in ErrorMessages => history' = history
       /\ board' # board => moved]_vars

\* Three moves were recorded, the last call returning normally
C20_Witness == Len(history) >= 3 /\ thrown = ""

(***************************************************************************)
(* C21: no recorded move arrives on a square that is marked occupied in    *)
(* the bit field of the mover's own colour.                                *)
(***************************************************************************)
C21_NoLandingOnOwnPiece ==
    [][moved => ~isOccupiedBy(board, movedTo, movedPiece.color)]_vars

(***************************************************************************)
(* C22: after a recorded move, getPieceAt finds no piece on the square the *)
(* move left from, and finds on the square it arrived on a piece of the    *)
(* mover's colour and of the type the moved piece had.                     *)
(***************************************************************************)
C22_MoveRelocatesPiece ==
    [][moved
         => /\ isEmpty(board', movedFrom)
            /\ getPieceAt(board', movedTo).color = movedPiece.color
            /\ getPieceAt(board', movedTo).type = movedPiece.type]_vars

(***************************************************************************)
(* C23: move makes and records a move only when the strings given as from  *)
(* and as to are each one file letter a-h followed by one rank digit 1-8;  *)
(* a call with any other string makes no move.                             *)
(***************************************************************************)
C23_OnlySquaresAccepted ==
    [][moved \/ board' # board
         => /\ moved
            /\ history'[Len(history')][1] \in Squares
            /\ history'[Len(history')][2] \in Squares]_vars

(***************************************************************************)
(* C24: the first player of a game is white and the second is black, so    *)
(* the two seated players have different sides and each is the player of   *)
(* its side; once two players are seated a call of addPlayer leaves the    *)
(* players, the player table and the sides as they were; the call of start *)
(* that makes the game active gives the turn to the white player.          *)
(***************************************************************************)
C24_SidesByJoinOrder ==
    [][/\ Len(players') <= 2
       /\ Len(players') >= 1 => players'[1].side = "white"
       /\ Len(players') = 2 => players'[2].side = "black"
       /\ \A i \in 1..Len(players') :
              /\ sides'[players'[i].side] = players'[i]
              /\ playerTable'[players'[i].id] = players'[i]
       /\ Len(players) = 2 => UNCHANGED <<players, playerTable, sides>>
       /\ state = Prepared /\ state' = Active /\ Len(players) >= 1
          => turn' = players[1].id]_vars

\* Two players are seated, the game was started and no move was made since
C24_Witness ==
    /\ Len(players) = 2
    /\ players[1].side # players[2].side
    /\ state = Active
    /\ turn = players[1].id

(***************************************************************************)
(* C25: when canCastle returns true for the colour whose turn it is, the   *)
(* player of that colour can castle: the call of move from the king's home *)
(* square to the square two columns toward the rook returns normally, puts *)
(* the king there and the rook on the square the king crossed, gives the   *)
(* turn to the opponent and leaves canCastle false for that colour.        *)
(***************************************************************************)
C25_CastlingMoveExists ==
    \A cs \in CastleSides :
        castles(cs[1], cs[2]) /\ seated /\ turnSide = cs[1]
        => LET step == IF cs[2] = "king" THEN 1 ELSE -1
               result == move(game, sides[cs[1]], square(kingHome(cs[1])),
                              square(kingHome(cs[1]) + 2 * step))
               after == result.game.board
           IN  /\ result.thrown = ""
               /\ getPieceAt(after, square(kingHome(cs[1]) + 2 * step)).type = King
               /\ getPieceAt(after, square(kingHome(cs[1]) + step)).type = Rook
               /\ result.game.turn = opposite(cs[1])
               /\ \A side \in {"king", "queen"} :
                      canCastle(after, cs[1], side) = returnValue(FALSE)

\* The last recorded move was a two-square advance of a pawn
lastAdvancedTwo ==
    Len(history) > 0
    /\ advancedTwo(coordinatesToPosition(positionToCoordinates(history[Len(history)][2])))

(***************************************************************************)
(* C26: when isCheckmate returns for a king on the board, it returns true  *)
(* if and only if that king's colour is in check and no piece of that      *)
(* colour has a legal move; it returns false when a piece of that colour   *)
(* can capture the checking piece or step between it and the king.         *)
(***************************************************************************)
C26_CheckmateIffNoLegalMove ==
    \A color \in {"white", "black"} :
        \A k \in found(board, King, color) :
            LET result == isCheckmate(board, square(k), color)
                L == layout(board)
            IN  ~result.thrown /\ ~lastAdvancedTwo
                => (result.value <=> inCheck(L, color) /\ noLegalMove(L, color))

(***************************************************************************)
(* C27: a call of move is all or nothing.  A call that raises an error     *)
(* leaves the board, the history and the turn as they were; a call that    *)
(* changes the board or the history returns normally, has appended one     *)
(* entry to the history and has given the turn to the side opposite to the *)
(* moved piece's.                                                          *)
(***************************************************************************)
C27_MoveAllOrNothing ==
    [][/\ thrown' # "" => UNCHANGED <<board, history, turn>>
       /\ board' # board \/ history' # history
          => /\ thrown' = ""
             /\ moved
             /\ turn' = opposite(movedPiece.color)]_vars

(***************************************************************************)
(* C28: on every reachable board, the positions getLegalMoves returns for  *)
(* a piece on one of the 64 squares are squares of the board, a1 .. h8.    *)
(* (That the call returns at all for a king is the subject of C6.)         *)
(***************************************************************************)
C28_MovesStayOnBoard ==
    \A j \in (board.whitePieces \cup board.blackPieces) \cap (0..63) :
        LET legalMoves == getLegalMoves(board, square(j), {})
        IN  ~legalMoves.thrown
            => \A i \in 1..Len(legalMoves.moves) : legalMoves.moves[i] \in Squares

(***************************************************************************)
(* C29: the turn is the side to move, as a value that compares with the    *)
(* side of a player: the call of start that makes a game with a white      *)
(* player active sets it to white, and a call of move that returns         *)
(* normally sets it to the side opposite to the moved piece's.             *)
(***************************************************************************)
C29_TurnIsSideToMove ==
    [][/\ state = Prepared /\ state' = Active /\ "white" \in DOMAIN sides
          => turn' = sides["white"].side
       /\ moved /\ thrown' = "" => turn' = opposite(movedPiece.color)]_vars

\* The side of the player whose call of move recorded a move: move gives the
\* turn to the opposite side; a lone player is the only one who can call.
moverSide == IF Len(players) = 1 THEN players[1].side ELSE opposite(turn')

\* The bit field of a colour
field(b, color) == IF color = "white" THEN b.whitePieces ELSE b.blackPieces

(***************************************************************************)
(* C30: a recorded move relocates a piece of the moving player's side: the *)
(* piece getPieceAt finds on the from square has the colour of that side,  *)
(* the move clears the from square and marks the to square in the bit      *)
(* field of that side, and no square becomes marked in the bit field of    *)
(* the other side, also when the from square is marked in both.            *)
(***************************************************************************)
C30_OwnPieceMoved ==
    [][moved /\ (thrown' = "" \/ Len(players) = 1)
         => LET fromIndex == coordinatesToIndex(positionToCoordinates(movedFrom))
                toIndex == coordinatesToIndex(positionToCoordinates(movedTo))
            IN  /\ movedPiece.color = moverSide
                /\ fromIndex \in field(board, moverSide)
                /\ fromIndex \notin field(board', moverSide)
                /\ toIndex >= 0 => toIndex \in field(board', moverSide)
                /\ field(board', opposite(moverSide)) \cap (0..63)
                       \subseteq field(board, opposite(moverSide))]_vars

\* A white piece has just left a square that is marked in the black bit field
C30_Witness ==
    /\ Len(history) > 0
    /\ thrown = ""
    /\ turn = "black"
    /\ LET last == history[Len(history)]
           fromIndex == coordinatesToIndex(positionToCoordinates(last[1]))
           toIndex == coordinatesToIndex(positionToCoordinates(last[2]))
       IN  /\ fromIndex \in board.blackPieces
           /\ fromIndex \notin board.whitePieces
           /\ toIndex \in board.whitePieces

(***************************************************************************)
(* Vocabulary of the claims on move generation                             *)
(***************************************************************************)
\* The set of the positions of a sequence of moves
positions(moves) == {moves[i] : i \in 1..Len(moves)}

\* The squares a pawn on square j may go to by the rules: one step forward
\* onto an empty square, two from the home rank over two empty squares, one
\* step diagonally forward onto an enemy piece or, en passant, behind an
\* enemy pawn that has just advanced two squares beside it.
pawnSquares(b, j) ==
    LET L == layout(b)
        color == L[j].color
        forward == IF color = "white" THEN 1 ELSE -1
        home == IF color = "white" THEN 1 ELSE 6
        row == j \div 8
        col == j % 8
        ahead == j + 8 * forward
        diagonals == {ahead + side : side \in {s \in {-1, 1} : col + s \in 0..7}}
    IN  {k \in {ahead} : L[k] = null}
        \cup {k \in {ahead + 8 * forward} : row = home /\ L[ahead] = null /\ L[k] = null}
        \cup {k \in diagonals :
                \/ L[k] # null /\ L[k].color # color
                \/ /\ L[k] = null
                   /\ L[k - 8 * forward].type = Pawn
                   /\ L[k - 8 * forward].color # color
                   /\ advancedTwo(square(k - 8 * forward))}

(***************************************************************************)
(* C31: for every pawn that is not on the far rank, the positions          *)
(* getLegalMoves returns are exactly the squares the pawn may go to: the   *)
(* empty square ahead, the second square ahead from the home rank when     *)
(* both are empty, and a forward diagonal that holds an enemy piece or is  *)
(* an en-passant capture.                                                  *)
(***************************************************************************)
C31_PawnMoves ==
    \A color \in {"white", "black"} :
        \A j \in found(board, Pawn, color) :
            j \div 8 # (IF color = "white" THEN 7 ELSE 0)
            => positions(getLegalMoves(board, square(j), {}).moves)
                   = {square(k) : k \in pawnSquares(board, j)}

\* The squares a rook, bishop or queen on square j reaches by sliding: those
\* on one of its lines with nothing in between and no piece of its colour on them
slideSquares(L, j) ==
    LET type == L[j].type
        orthogonal == type \in {Rook, RookCastle, Queen}
        diagonal == type \in {Bishop, Queen}
    IN  {k \in (0..63) \ {j} :
            LET r == (k \div 8) - (j \div 8)
                c == (k % 8) - (j % 8)
            IN  /\ \/ orthogonal /\ (r = 0 \/ c = 0)
                   \/ diagonal /\ abs(r) = abs(c)
                /\ clearBetween(L, j, k)
                /\ L[k] = null \/ L[k].color # L[j].color}

sliders(L) == {j \in 0..63 : L[j].type \in {Rook, RookCastle, Bishop, Queen}}

(***************************************************************************)
(* C32: for a rook, bishop or queen on any square, getLegalMoves is        *)
(* exactly the set of squares reached by sliding along each of its         *)
(* directions (orthogonal, diagonal, both) until the board edge, stopping  *)
(* before the first own piece and including, then stopping at, the first   *)
(* enemy piece.                                                            *)
(***************************************************************************)
C32_SlidingMoves ==
    LET L == layout(board)
    IN  \A j \in sliders(L) :
            positions(getLegalMoves(board, square(j), {}).moves)
                = {square(k) : k \in slideSquares(L, j)}

\* A queen that slides over empty squares, is stopped by a piece of its
\* colour and has an enemy piece as the last square of a line
C32_Witness ==
    LET L == layout(board)
    IN  \E j \in found(board, Queen, "white") :
            LET moves == positions(getLegalMoves(board, square(j), {}).moves)
            IN  /\ \E k \in 0..63 : square(k) \in moves /\ L[k] = null
                /\ \E k \in 0..63 : square(k) \in moves /\ L[k] # null /\ L[k].color = "black"
                /\ \E k \in 0..63 : square(k) \notin moves /\ L[k] # null /\ L[k].color = "black"
                                     /\ (k % 8 = j % 8 \/ k \div 8 = j \div 8)

\* The number of squares marked occupied in a colour's bit field, and the
\* number of squares on which getPieceAt reports a piece of the colour
occupancyCount(b, color) == Cardinality(field(b, color) \cap (0..63))
reportedCount(b, color) == Cardinality({j \in 0..63 : getPieceAt(b, square(j)).color = color})

\* The accepted move takes a piece: it lands on an enemy piece, or it is a
\* pawn's diagonal step onto an empty square
captures ==
    \/ isEnemy(board, movedTo, movedPiece.color)
    \/ /\ movedPiece.type = Pawn
       /\ isEmpty(board, movedTo)
       /\ positionToCoordinates(movedTo).col # positionToCoordinates(movedFrom).col

(***************************************************************************)
(* C33: an accepted move that does not capture leaves the number of pieces *)
(* of each colour unchanged, and an accepted capture lowers the opponent's *)
(* piece count by exactly one and leaves the mover's unchanged, both for   *)
(* the occupancy bits of each bit field and for the pieces reported by     *)
(* getPieceAt.                                                             *)
(***************************************************************************)
C33_PieceCounts ==
    [][moved /\ thrown' = ""
       => LET mover == movedPiece.color
              other == opposite(mover)
              taken == IF captures THEN 1 ELSE 0
          IN  /\ occupancyCount(board', mover) = occupancyCount(board, mover)
              /\ reportedCount(board', mover) = reportedCount(board, mover)
              /\ occupancyCount(board', other) = occupancyCount(board, other) - taken
              /\ reportedCount(board', other) = reportedCount(board, other) - taken]_vars

\* Square j has the same occupancy bit and the same kind field in both bit fields
sameSquare(b1, b2, j) ==
    \A color \in {"white", "black"} :
        /\ j \in field(b1, color) <=> j \in field(b2, color)
        /\ readType(field(b1, color), calculateBitLength(j))
               = readType(field(b2, color), calculateBitLength(j))

\* The squares an accepted move may change: its source, its destination and,
\* when a pawn steps diagonally onto an empty square, the square beside it
moveSquares ==
    LET from == positionToCoordinates(movedFrom)
        to == positionToCoordinates(movedTo)
    IN  {coordinatesToIndex(from), coordinatesToIndex(to)}
        \cup (IF movedPiece.type = Pawn /\ isEmpty(board, movedTo) /\ to.col # from.col
              THEN {coordinatesToIndex([row |-> from.row, col |-> to.col])} ELSE {})

(***************************************************************************)
(* C34: an accepted move changes the contents of at most the source        *)
(* square, the destination square and, for an en-passant capture, the      *)
(* captured pawn's square; every other square keeps the same occupancy,    *)
(* kind and colour in both bit fields.                                     *)
(***************************************************************************)
C34_MoveFrame ==
    [][moved /\ thrown' = ""
       => \A j \in (0..63) \ moveSquares : sameSquare(board, board', j)]_vars

\* The destinations with which movePiece is applied to every square
Tos == {c[2] : c \in Probes} \cap Squares

(***************************************************************************)
(* C35: movePiece(from, to) returns false and changes neither bit field    *)
(* nor the en-passant marks when no piece stands on from, and returns true *)
(* in every other case.                                                    *)
(***************************************************************************)
C35_MovePieceResult ==
    \A from \in Squares :
        \A to \in Tos :
            LET result == movePiece(board, from, to)
            IN  IF ~isOccupiedBy(board, from, "white") /\ ~isOccupiedBy(board, from, "black")
                THEN ~result.returned /\ result.board = board
                ELSE result.returned

\* After e2-e4, movePiece from the vacated e2 is refused and leaves the board
\* as it is, and movePiece from e4 succeeds and changes it
C35_Witness ==
    /\ Len(history) = 1
    /\ ~movePiece(board, at("e", 2), at("e", 5)).returned
    /\ movePiece(board, at("e", 2), at("e", 5)).board = board
    /\ movePiece(board, at("e", 4), at("e", 5)).returned
    /\ movePiece(board, at("e", 4), at("e", 5)).board # board

\* The kinds a pawn is promoted to
PromotionTypes == {Queen, Rook, Bishop, Knight}

(***************************************************************************)
(* C36: promotion(from, to, type) returns false and changes nothing unless *)
(* a pawn stands on from; when it returns true the pawn has been promoted: *)
(* no pawn remains on from, to holds a piece of the chosen kind and of the *)
(* pawn's colour, and that colour's piece count has not grown.             *)
(***************************************************************************)
C36_Promotion ==
    \A from \in Squares :
        \A to \in Tos :
            \A type \in PromotionTypes :
                LET pawn == getPieceAt(board, from)
                    result == promotion(board, from, to, type)
                IN  /\ pawn.type # Pawn => ~result.returned /\ result.board = board
                    /\ result.returned
                       => /\ getPieceAt(result.board, from).type # Pawn
                          /\ getPieceAt(result.board, to).type = type
                          /\ getPieceAt(result.board, to).color = pawn.color
                          /\ occupancyCount(result.board, pawn.color)
                                 <= occupancyCount(board, pawn.color)

\* Moving from -> to is an en-passant capture: a pawn steps one square
\* diagonally forward onto an empty square, and beside it, on the column of
\* that square, stands an enemy pawn that has just advanced two squares
enPassantCapture(from, to) ==
    LET piece == getPieceAt(board, from)
        f == positionToCoordinates(from)
        t == positionToCoordinates(to)
        beside == pos(f.row, t.col)
    IN  /\ piece.type = Pawn
        /\ t.row - f.row = (IF piece.color = "white" THEN 1 ELSE -1)
        /\ abs(t.col - f.col) = 1
        /\ isEmpty(board, to)
        /\ getPieceAt(board, beside).type = Pawn
        /\ getPieceAt(board, beside).color = opposite(piece.color)
        /\ advancedTwo(beside)

(***************************************************************************)
(* C37: isEnPassant(from, to) is true exactly when moving from -> to is an *)
(* en-passant capture, i.e. a pawn moving one step diagonally onto an      *)
(* empty square beside which stands an enemy pawn that has just advanced   *)
(* two squares; it is false for every other move, including a plain        *)
(* two-square pawn advance.                                                *)
(***************************************************************************)
C37_IsEnPassant ==
    \A from \in Squares :
        \A to \in Squares :
            isEnPassant(board, from, to) <=> enPassantCapture(from, to)

\* The kinds of PieceType
PieceTypes == {Pawn, Rook, Knight, Bishop, Queen, King, PawnEnPassant, KingCastle, RookCastle}

\* The bits of a bit field that belong to square q: its occupancy bit and its
\* kind field; and, for each bit, the squares it belongs to
slotBits == [q \in 0..63 |-> {q} \cup {calculateBitLength(q) + k : k \in 0..(bitOffset - 1)}]
owners == [d \in 0..(64 + 64 * bitOffset - 1) |-> {q \in 0..63 : d \in slotBits[q]}]

\* The bits in which two bit fields differ
changedBits(b1, b2) == (b1 \ b2) \cup (b2 \ b1)

\* No square other than p has its occupancy bit or a bit of its kind field
\* among the bits in which b1 and b2 differ
onlySlot(b1, b2, p) ==
    \A d \in changedBits(b1, b2) : d \in DOMAIN owners => owners[d] = {p}

(***************************************************************************)
(* C38: for distinct indices p and q in 0..63, setPiece and removePiece at *)
(* p leave the occupancy bit and the kind field of q unchanged,            *)
(* removePiece(setPiece(b, p, t), p) = b whenever p is empty in b, and the *)
(* kind read back at p after setPiece on an empty slot is t: the 64 kind   *)
(* fields overlap neither one another nor the 64 occupancy bits.           *)
(***************************************************************************)
C38_SlotsDisjoint ==
    \A color \in {"white", "black"} :
        LET b == field(board, color)
        IN  \A p \in 0..63 :
                /\ onlySlot(removePiece(b, p), b, p)
                /\ \A t \in PieceTypes :
                       LET set == setPiece(b, p, t)
                       IN  /\ onlySlot(set, b, p)
                           /\ p \notin b
                              => /\ removePiece(set, p) = b
                                 /\ readType(set, calculateBitLength(p)) = t

\* After e2-e4 the vacated slot 12 of whitePieces takes a queen, which is read
\* back and removed again, and removing the pawn of slot 28 changes that slot
C38_Witness ==
    /\ Len(history) = 1
    /\ 12 \notin board.whitePieces
    /\ readType(setPiece(board.whitePieces, 12, Queen), calculateBitLength(12)) = Queen
    /\ setPiece(board.whitePieces, 12, Queen) # board.whitePieces
    /\ removePiece(setPiece(board.whitePieces, 12, Queen), 12) = board.whitePieces
    /\ 28 \in board.whitePieces
    /\ removePiece(board.whitePieces, 28) # board.whitePieces

====
